---- MODULE Spec2Model ----
(***************************************************************************)
(* A model of myapp/views.py: the note-sequence text codec                 *)
(* (convert_text_to_midi, generate_midi_text_from_files), the corpus       *)
(* selector (get_filtered_midi_files) and the upload pipeline (upload).    *)
(*                                                                         *)
(* A Python str is the sequence of its code points, so that strip, split,  *)
(* startswith, endswith, lower, int() and the 03d format are computed     *)
(* character by character.  Python floats are IEEE-754 doubles:            *)
(* a 53-bit significand kept as a sequence of bits, most significant       *)
(* first, with the number of bits after the binary point.                  *)
(***************************************************************************)
EXTENDS Integers, Sequences, FiniteSets, TLC

(***************************************************************************)
(* Characters and strings                                                  *)
(***************************************************************************)

\* the characters from space to underscore, code points 32 to 95 in order
AsciiLow ==
    " !\"#$%&'()*+,-./0123456789:;<=>?@ABCDEFGHIJKLMNOPQRSTUVWXYZ[\\]^_"

\* the characters from a to tilde, code points 97 to 126 in order
AsciiHigh == "abcdefghijklmnopqrstuvwxyz{|}~"

\* ord(c) of a character written in a literal of this module
Ord(c) ==
    CASE c = "\t" -> 9
      [] c = "\n" -> 10
      [] c = "\f" -> 12
      [] c = "\r" -> 13
      [] \E i \in 1..Len(AsciiLow) : SubSeq(AsciiLow, i, i) = c ->
            31 + (CHOOSE i \in 1..Len(AsciiLow) : SubSeq(AsciiLow, i, i) = c)
      [] OTHER ->
            96 + (CHOOSE i \in 1..Len(AsciiHigh) : SubSeq(AsciiHigh, i, i) = c)

\* the str a literal stands for
Str(s) == [i \in 1..Len(s) |-> Ord(SubSeq(s, i, i))]

NewLine == Ord("\n")

Space == Ord(" ")

Zero == Ord("0")

Plus == Ord("+")

Minus == Ord("-")

Underscore == Ord("_")

Dot == Ord(".")

Slash == Ord("/")

\* the characters str.isspace() holds for, which str.split() and str.strip()
\* drop
Whitespace ==
    {9, 10, 11, 12, 13, 28, 29, 30, 31, 32, 133, 160, 5760}
        \cup (8192..8202) \cup {8232, 8233, 8239, 8287, 12288}

\* the digit zero of every script: the ten decimal digits int() reads are
\* the code points from a zero on, in the order of their values
DigitZeros ==
    {48, 1632, 1776, 1984, 2406, 2534, 2662, 2790, 2918, 3046, 3174, 3302,
     3430, 3558, 3664, 3792, 3872, 4160, 4240, 6112, 6160, 6470, 6608,
     6784, 6800, 6992, 7088, 7232, 7248, 42528, 43216, 43264, 43472, 43504,
     43600, 44016, 65296, 66720, 68912, 69734, 69872, 69942, 70096, 70384,
     70736, 70864, 71248, 71360, 71472, 71904, 72016, 72784, 73040, 73120,
     92768, 92864, 93008, 120782, 120792, 120802, 120812, 120822, 123200,
     123632, 125264, 130032}

IsDigit(c) == \E z \in DigitZeros : z <= c /\ c <= z + 9

\* the value of a decimal digit
DigitVal(c) == c - (CHOOSE z \in DigitZeros : z <= c /\ c <= z + 9)

\* str.lower() outside ASCII, for the characters it maps to one other
\* character whatever is around them: <<first, last, step, d>> stands for
\* first, first + step, ..., last, each mapped to itself plus d
LowerRuns ==
    << <<65, 90, 1, 32>>, <<192, 214, 1, 32>>, <<216, 222, 1, 32>>,
       <<256, 302, 2, 1>>, <<306, 310, 2, 1>>, <<313, 327, 2, 1>>,
       <<330, 374, 2, 1>>, <<376, 376, 1, -121>>, <<377, 381, 2, 1>>,
       <<385, 385, 1, 210>>, <<386, 388, 2, 1>>, <<390, 390, 1, 206>>,
       <<391, 391, 1, 1>>, <<393, 394, 1, 205>>, <<395, 395, 1, 1>>,
       <<398, 398, 1, 79>>, <<399, 399, 1, 202>>, <<400, 400, 1, 203>>,
       <<401, 401, 1, 1>>, <<403, 403, 1, 205>>, <<404, 404, 1, 207>>,
       <<406, 406, 1, 211>>, <<407, 407, 1, 209>>, <<408, 408, 1, 1>>,
       <<412, 412, 1, 211>>, <<413, 413, 1, 213>>, <<415, 415, 1, 214>>,
       <<416, 420, 2, 1>>, <<422, 422, 1, 218>>, <<423, 423, 1, 1>>,
       <<425, 425, 1, 218>>, <<428, 428, 1, 1>>, <<430, 430, 1, 218>>,
       <<431, 431, 1, 1>>, <<433, 434, 1, 217>>, <<435, 437, 2, 1>>,
       <<439, 439, 1, 219>>, <<440, 440, 1, 1>>, <<444, 444, 1, 1>>,
       <<452, 452, 1, 2>>, <<453, 453, 1, 1>>, <<455, 455, 1, 2>>,
       <<456, 456, 1, 1>>, <<458, 458, 1, 2>>, <<459, 475, 2, 1>>,
       <<478, 494, 2, 1>>, <<497, 497, 1, 2>>, <<498, 500, 2, 1>>,
       <<502, 502, 1, -97>>, <<503, 503, 1, -56>>, <<504, 542, 2, 1>>,
       <<544, 544, 1, -130>>, <<546, 562, 2, 1>>, <<570, 570, 1, 10795>>,
       <<571, 571, 1, 1>>, <<573, 573, 1, -163>>, <<574, 574, 1, 10792>>,
       <<577, 577, 1, 1>>, <<579, 579, 1, -195>>, <<580, 580, 1, 69>>,
       <<581, 581, 1, 71>>, <<582, 590, 2, 1>>, <<880, 882, 2, 1>>,
       <<886, 886, 1, 1>>, <<895, 895, 1, 116>>, <<902, 902, 1, 38>>,
       <<904, 906, 1, 37>>, <<908, 908, 1, 64>>, <<910, 911, 1, 63>>,
       <<913, 929, 1, 32>>, <<931, 939, 1, 32>>, <<975, 975, 1, 8>>,
       <<984, 1006, 2, 1>>, <<1012, 1012, 1, -60>>, <<1015, 1015, 1, 1>>,
       <<1017, 1017, 1, -7>>, <<1018, 1018, 1, 1>>,
       <<1021, 1023, 1, -130>>, <<1024, 1039, 1, 80>>,
       <<1040, 1071, 1, 32>>, <<1120, 1152, 2, 1>>, <<1162, 1214, 2, 1>>,
       <<1216, 1216, 1, 15>>, <<1217, 1229, 2, 1>>, <<1232, 1326, 2, 1>>,
       <<1329, 1366, 1, 48>>, <<4256, 4293, 1, 7264>>,
       <<4295, 4295, 1, 7264>>, <<4301, 4301, 1, 7264>>,
       <<5024, 5103, 1, 38864>>, <<5104, 5109, 1, 8>>,
       <<7312, 7354, 1, -3008>>, <<7357, 7359, 1, -3008>>,
       <<7680, 7828, 2, 1>>, <<7838, 7838, 1, -7615>>,
       <<7840, 7934, 2, 1>>, <<7944, 7951, 1, -8>>, <<7960, 7965, 1, -8>>,
       <<7976, 7983, 1, -8>>, <<7992, 7999, 1, -8>>, <<8008, 8013, 1, -8>>,
       <<8025, 8031, 2, -8>>, <<8040, 8047, 1, -8>>, <<8072, 8079, 1, -8>>,
       <<8088, 8095, 1, -8>>, <<8104, 8111, 1, -8>>, <<8120, 8121, 1, -8>>,
       <<8122, 8123, 1, -74>>, <<8124, 8124, 1, -9>>,
       <<8136, 8139, 1, -86>>, <<8140, 8140, 1, -9>>,
       <<8152, 8153, 1, -8>>, <<8154, 8155, 1, -100>>,
       <<8168, 8169, 1, -8>>, <<8170, 8171, 1, -112>>,
       <<8172, 8172, 1, -7>>, <<8184, 8185, 1, -128>>,
       <<8186, 8187, 1, -126>>, <<8188, 8188, 1, -9>>,
       <<8486, 8486, 1, -7517>>, <<8490, 8490, 1, -8383>>,
       <<8491, 8491, 1, -8262>>, <<8498, 8498, 1, 28>>,
       <<8544, 8559, 1, 16>>, <<8579, 8579, 1, 1>>, <<9398, 9423, 1, 26>>,
       <<11264, 11311, 1, 48>>, <<11360, 11360, 1, 1>>,
       <<11362, 11362, 1, -10743>>, <<11363, 11363, 1, -3814>>,
       <<11364, 11364, 1, -10727>>, <<11367, 11371, 2, 1>>,
       <<11373, 11373, 1, -10780>>, <<11374, 11374, 1, -10749>>,
       <<11375, 11375, 1, -10783>>, <<11376, 11376, 1, -10782>>,
       <<11378, 11378, 1, 1>>, <<11381, 11381, 1, 1>>,
       <<11390, 11391, 1, -10815>>, <<11392, 11490, 2, 1>>,
       <<11499, 11501, 2, 1>>, <<11506, 11506, 1, 1>>,
       <<42560, 42604, 2, 1>>, <<42624, 42650, 2, 1>>,
       <<42786, 42798, 2, 1>>, <<42802, 42862, 2, 1>>,
       <<42873, 42875, 2, 1>>, <<42877, 42877, 1, -35332>>,
       <<42878, 42886, 2, 1>>, <<42891, 42891, 1, 1>>,
       <<42893, 42893, 1, -42280>>, <<42896, 42898, 2, 1>>,
       <<42902, 42920, 2, 1>>, <<42922, 42922, 1, -42308>>,
       <<42923, 42923, 1, -42319>>, <<42924, 42924, 1, -42315>>,
       <<42925, 42925, 1, -42305>>, <<42926, 42926, 1, -42308>>,
       <<42928, 42928, 1, -42258>>, <<42929, 42929, 1, -42282>>,
       <<42930, 42930, 1, -42261>>, <<42931, 42931, 1, 928>>,
       <<42932, 42946, 2, 1>>, <<42948, 42948, 1, -48>>,
       <<42949, 42949, 1, -42307>>, <<42950, 42950, 1, -35384>>,
       <<42951, 42953, 2, 1>>, <<42960, 42960, 1, 1>>,
       <<42966, 42968, 2, 1>>, <<42997, 42997, 1, 1>>,
       <<65313, 65338, 1, 32>>, <<66560, 66599, 1, 40>>,
       <<66736, 66771, 1, 40>>, <<66928, 66938, 1, 39>>,
       <<66940, 66954, 1, 39>>, <<66956, 66962, 1, 39>>,
       <<66964, 66965, 1, 39>>, <<68736, 68786, 1, 64>>,
       <<71840, 71871, 1, 32>>, <<93760, 93791, 1, 32>>,
       <<125184, 125217, 1, 34>> >>

\* the characters that are cased and not case-ignorable, as ranges
CasedRanges ==
    << <<65, 90>>, <<97, 122>>, <<170, 170>>, <<181, 181>>, <<186, 186>>,
       <<192, 214>>, <<216, 246>>, <<248, 442>>, <<444, 447>>,
       <<452, 659>>, <<661, 687>>, <<880, 883>>, <<886, 887>>,
       <<891, 893>>, <<895, 895>>, <<902, 902>>, <<904, 906>>,
       <<908, 908>>, <<910, 929>>, <<931, 1013>>, <<1015, 1153>>,
       <<1162, 1327>>, <<1329, 1366>>, <<1376, 1416>>, <<4256, 4293>>,
       <<4295, 4295>>, <<4301, 4301>>, <<4304, 4346>>, <<4349, 4351>>,
       <<5024, 5109>>, <<5112, 5117>>, <<7296, 7304>>, <<7312, 7354>>,
       <<7357, 7359>>, <<7424, 7467>>, <<7531, 7543>>, <<7545, 7578>>,
       <<7680, 7957>>, <<7960, 7965>>, <<7968, 8005>>, <<8008, 8013>>,
       <<8016, 8023>>, <<8025, 8025>>, <<8027, 8027>>, <<8029, 8029>>,
       <<8031, 8061>>, <<8064, 8116>>, <<8118, 8124>>, <<8126, 8126>>,
       <<8130, 8132>>, <<8134, 8140>>, <<8144, 8147>>, <<8150, 8155>>,
       <<8160, 8172>>, <<8178, 8180>>, <<8182, 8188>>, <<8450, 8450>>,
       <<8455, 8455>>, <<8458, 8467>>, <<8469, 8469>>, <<8473, 8477>>,
       <<8484, 8484>>, <<8486, 8486>>, <<8488, 8488>>, <<8490, 8493>>,
       <<8495, 8500>>, <<8505, 8505>>, <<8508, 8511>>, <<8517, 8521>>,
       <<8526, 8526>>, <<8544, 8575>>, <<8579, 8580>>, <<9398, 9449>>,
       <<11264, 11387>>, <<11390, 11492>>, <<11499, 11502>>,
       <<11506, 11507>>, <<11520, 11557>>, <<11559, 11559>>,
       <<11565, 11565>>, <<42560, 42605>>, <<42624, 42651>>,
       <<42786, 42863>>, <<42865, 42887>>, <<42891, 42894>>,
       <<42896, 42954>>, <<42960, 42961>>, <<42963, 42963>>,
       <<42965, 42969>>, <<42997, 42998>>, <<43002, 43002>>,
       <<43824, 43866>>, <<43872, 43880>>, <<43888, 43967>>,
       <<64256, 64262>>, <<64275, 64279>>, <<65313, 65338>>,
       <<65345, 65370>>, <<66560, 66639>>, <<66736, 66771>>,
       <<66776, 66811>>, <<66928, 66938>>, <<66940, 66954>>,
       <<66956, 66962>>, <<66964, 66965>>, <<66967, 66977>>,
       <<66979, 66993>>, <<66995, 67001>>, <<67003, 67004>>,
       <<68736, 68786>>, <<68800, 68850>>, <<71840, 71903>>,
       <<93760, 93823>>, <<119808, 119892>>, <<119894, 119964>>,
       <<119966, 119967>>, <<119970, 119970>>, <<119973, 119974>>,
       <<119977, 119980>>, <<119982, 119993>>, <<119995, 119995>>,
       <<119997, 120003>>, <<120005, 120069>>, <<120071, 120074>>,
       <<120077, 120084>>, <<120086, 120092>>, <<120094, 120121>>,
       <<120123, 120126>>, <<120128, 120132>>, <<120134, 120134>>,
       <<120138, 120144>>, <<120146, 120485>>, <<120488, 120512>>,
       <<120514, 120538>>, <<120540, 120570>>, <<120572, 120596>>,
       <<120598, 120628>>, <<120630, 120654>>, <<120656, 120686>>,
       <<120688, 120712>>, <<120714, 120744>>, <<120746, 120770>>,
       <<120772, 120779>>, <<122624, 122633>>, <<122635, 122654>>,
       <<125184, 125251>>, <<127280, 127305>>, <<127312, 127337>>,
       <<127344, 127369>> >>

\* the case-ignorable characters, as ranges
CaseIgnorableRanges ==
    << <<39, 39>>, <<46, 46>>, <<58, 58>>, <<94, 94>>, <<96, 96>>,
       <<168, 168>>, <<173, 173>>, <<175, 175>>, <<180, 180>>,
       <<183, 184>>, <<688, 879>>, <<884, 885>>, <<890, 890>>,
       <<900, 901>>, <<903, 903>>, <<1155, 1161>>, <<1369, 1369>>,
       <<1375, 1375>>, <<1425, 1469>>, <<1471, 1471>>, <<1473, 1474>>,
       <<1476, 1477>>, <<1479, 1479>>, <<1524, 1524>>, <<1536, 1541>>,
       <<1552, 1562>>, <<1564, 1564>>, <<1600, 1600>>, <<1611, 1631>>,
       <<1648, 1648>>, <<1750, 1757>>, <<1759, 1768>>, <<1770, 1773>>,
       <<1807, 1807>>, <<1809, 1809>>, <<1840, 1866>>, <<1958, 1968>>,
       <<2027, 2037>>, <<2042, 2042>>, <<2045, 2045>>, <<2070, 2093>>,
       <<2137, 2139>>, <<2184, 2184>>, <<2192, 2193>>, <<2200, 2207>>,
       <<2249, 2306>>, <<2362, 2362>>, <<2364, 2364>>, <<2369, 2376>>,
       <<2381, 2381>>, <<2385, 2391>>, <<2402, 2403>>, <<2417, 2417>>,
       <<2433, 2433>>, <<2492, 2492>>, <<2497, 2500>>, <<2509, 2509>>,
       <<2530, 2531>>, <<2558, 2558>>, <<2561, 2562>>, <<2620, 2620>>,
       <<2625, 2626>>, <<2631, 2632>>, <<2635, 2637>>, <<2641, 2641>>,
       <<2672, 2673>>, <<2677, 2677>>, <<2689, 2690>>, <<2748, 2748>>,
       <<2753, 2757>>, <<2759, 2760>>, <<2765, 2765>>, <<2786, 2787>>,
       <<2810, 2815>>, <<2817, 2817>>, <<2876, 2876>>, <<2879, 2879>>,
       <<2881, 2884>>, <<2893, 2893>>, <<2901, 2902>>, <<2914, 2915>>,
       <<2946, 2946>>, <<3008, 3008>>, <<3021, 3021>>, <<3072, 3072>>,
       <<3076, 3076>>, <<3132, 3132>>, <<3134, 3136>>, <<3142, 3144>>,
       <<3146, 3149>>, <<3157, 3158>>, <<3170, 3171>>, <<3201, 3201>>,
       <<3260, 3260>>, <<3263, 3263>>, <<3270, 3270>>, <<3276, 3277>>,
       <<3298, 3299>>, <<3328, 3329>>, <<3387, 3388>>, <<3393, 3396>>,
       <<3405, 3405>>, <<3426, 3427>>, <<3457, 3457>>, <<3530, 3530>>,
       <<3538, 3540>>, <<3542, 3542>>, <<3633, 3633>>, <<3636, 3642>>,
       <<3654, 3662>>, <<3761, 3761>>, <<3764, 3772>>, <<3782, 3782>>,
       <<3784, 3789>>, <<3864, 3865>>, <<3893, 3893>>, <<3895, 3895>>,
       <<3897, 3897>>, <<3953, 3966>>, <<3968, 3972>>, <<3974, 3975>>,
       <<3981, 3991>>, <<3993, 4028>>, <<4038, 4038>>, <<4141, 4144>>,
       <<4146, 4151>>, <<4153, 4154>>, <<4157, 4158>>, <<4184, 4185>>,
       <<4190, 4192>>, <<4209, 4212>>, <<4226, 4226>>, <<4229, 4230>>,
       <<4237, 4237>>, <<4253, 4253>>, <<4348, 4348>>, <<4957, 4959>>,
       <<5906, 5908>>, <<5938, 5939>>, <<5970, 5971>>, <<6002, 6003>>,
       <<6068, 6069>>, <<6071, 6077>>, <<6086, 6086>>, <<6089, 6099>>,
       <<6103, 6103>>, <<6109, 6109>>, <<6155, 6159>>, <<6211, 6211>>,
       <<6277, 6278>>, <<6313, 6313>>, <<6432, 6434>>, <<6439, 6440>>,
       <<6450, 6450>>, <<6457, 6459>>, <<6679, 6680>>, <<6683, 6683>>,
       <<6742, 6742>>, <<6744, 6750>>, <<6752, 6752>>, <<6754, 6754>>,
       <<6757, 6764>>, <<6771, 6780>>, <<6783, 6783>>, <<6823, 6823>>,
       <<6832, 6862>>, <<6912, 6915>>, <<6964, 6964>>, <<6966, 6970>>,
       <<6972, 6972>>, <<6978, 6978>>, <<7019, 7027>>, <<7040, 7041>>,
       <<7074, 7077>>, <<7080, 7081>>, <<7083, 7085>>, <<7142, 7142>>,
       <<7144, 7145>>, <<7149, 7149>>, <<7151, 7153>>, <<7212, 7219>>,
       <<7222, 7223>>, <<7288, 7293>>, <<7376, 7378>>, <<7380, 7392>>,
       <<7394, 7400>>, <<7405, 7405>>, <<7412, 7412>>, <<7416, 7417>>,
       <<7468, 7530>>, <<7544, 7544>>, <<7579, 7679>>, <<8125, 8125>>,
       <<8127, 8129>>, <<8141, 8143>>, <<8157, 8159>>, <<8173, 8175>>,
       <<8189, 8190>>, <<8203, 8207>>, <<8216, 8217>>, <<8228, 8228>>,
       <<8231, 8231>>, <<8234, 8238>>, <<8288, 8292>>, <<8294, 8303>>,
       <<8305, 8305>>, <<8319, 8319>>, <<8336, 8348>>, <<8400, 8432>>,
       <<11388, 11389>>, <<11503, 11505>>, <<11631, 11631>>,
       <<11647, 11647>>, <<11744, 11775>>, <<11823, 11823>>,
       <<12293, 12293>>, <<12330, 12333>>, <<12337, 12341>>,
       <<12347, 12347>>, <<12441, 12446>>, <<12540, 12542>>,
       <<40981, 40981>>, <<42232, 42237>>, <<42508, 42508>>,
       <<42607, 42610>>, <<42612, 42621>>, <<42623, 42623>>,
       <<42652, 42655>>, <<42736, 42737>>, <<42752, 42785>>,
       <<42864, 42864>>, <<42888, 42890>>, <<42994, 42996>>,
       <<43000, 43001>>, <<43010, 43010>>, <<43014, 43014>>,
       <<43019, 43019>>, <<43045, 43046>>, <<43052, 43052>>,
       <<43204, 43205>>, <<43232, 43249>>, <<43263, 43263>>,
       <<43302, 43309>>, <<43335, 43345>>, <<43392, 43394>>,
       <<43443, 43443>>, <<43446, 43449>>, <<43452, 43453>>,
       <<43471, 43471>>, <<43493, 43494>>, <<43561, 43566>>,
       <<43569, 43570>>, <<43573, 43574>>, <<43587, 43587>>,
       <<43596, 43596>>, <<43632, 43632>>, <<43644, 43644>>,
       <<43696, 43696>>, <<43698, 43700>>, <<43703, 43704>>,
       <<43710, 43711>>, <<43713, 43713>>, <<43741, 43741>>,
       <<43756, 43757>>, <<43763, 43764>>, <<43766, 43766>>,
       <<43867, 43871>>, <<43881, 43883>>, <<44005, 44005>>,
       <<44008, 44008>>, <<44013, 44013>>, <<64286, 64286>>,
       <<64434, 64450>>, <<65024, 65039>>, <<65043, 65043>>,
       <<65056, 65071>>, <<65106, 65106>>, <<65109, 65109>>,
       <<65279, 65279>>, <<65287, 65287>>, <<65294, 65294>>,
       <<65306, 65306>>, <<65342, 65342>>, <<65344, 65344>>,
       <<65392, 65392>>, <<65438, 65439>>, <<65507, 65507>>,
       <<65529, 65531>>, <<66045, 66045>>, <<66272, 66272>>,
       <<66422, 66426>>, <<67456, 67461>>, <<67463, 67504>>,
       <<67506, 67514>>, <<68097, 68099>>, <<68101, 68102>>,
       <<68108, 68111>>, <<68152, 68154>>, <<68159, 68159>>,
       <<68325, 68326>>, <<68900, 68903>>, <<69291, 69292>>,
       <<69446, 69456>>, <<69506, 69509>>, <<69633, 69633>>,
       <<69688, 69702>>, <<69744, 69744>>, <<69747, 69748>>,
       <<69759, 69761>>, <<69811, 69814>>, <<69817, 69818>>,
       <<69821, 69821>>, <<69826, 69826>>, <<69837, 69837>>,
       <<69888, 69890>>, <<69927, 69931>>, <<69933, 69940>>,
       <<70003, 70003>>, <<70016, 70017>>, <<70070, 70078>>,
       <<70089, 70092>>, <<70095, 70095>>, <<70191, 70193>>,
       <<70196, 70196>>, <<70198, 70199>>, <<70206, 70206>>,
       <<70367, 70367>>, <<70371, 70378>>, <<70400, 70401>>,
       <<70459, 70460>>, <<70464, 70464>>, <<70502, 70508>>,
       <<70512, 70516>>, <<70712, 70719>>, <<70722, 70724>>,
       <<70726, 70726>>, <<70750, 70750>>, <<70835, 70840>>,
       <<70842, 70842>>, <<70847, 70848>>, <<70850, 70851>>,
       <<71090, 71093>>, <<71100, 71101>>, <<71103, 71104>>,
       <<71132, 71133>>, <<71219, 71226>>, <<71229, 71229>>,
       <<71231, 71232>>, <<71339, 71339>>, <<71341, 71341>>,
       <<71344, 71349>>, <<71351, 71351>>, <<71453, 71455>>,
       <<71458, 71461>>, <<71463, 71467>>, <<71727, 71735>>,
       <<71737, 71738>>, <<71995, 71996>>, <<71998, 71998>>,
       <<72003, 72003>>, <<72148, 72151>>, <<72154, 72155>>,
       <<72160, 72160>>, <<72193, 72202>>, <<72243, 72248>>,
       <<72251, 72254>>, <<72263, 72263>>, <<72273, 72278>>,
       <<72281, 72283>>, <<72330, 72342>>, <<72344, 72345>>,
       <<72752, 72758>>, <<72760, 72765>>, <<72767, 72767>>,
       <<72850, 72871>>, <<72874, 72880>>, <<72882, 72883>>,
       <<72885, 72886>>, <<73009, 73014>>, <<73018, 73018>>,
       <<73020, 73021>>, <<73023, 73029>>, <<73031, 73031>>,
       <<73104, 73105>>, <<73109, 73109>>, <<73111, 73111>>,
       <<73459, 73460>>, <<78896, 78904>>, <<92912, 92916>>,
       <<92976, 92982>>, <<92992, 92995>>, <<94031, 94031>>,
       <<94095, 94111>>, <<94176, 94177>>, <<94179, 94180>>,
       <<110576, 110579>>, <<110581, 110587>>, <<110589, 110590>>,
       <<113821, 113822>>, <<113824, 113827>>, <<118528, 118573>>,
       <<118576, 118598>>, <<119143, 119145>>, <<119155, 119170>>,
       <<119173, 119179>>, <<119210, 119213>>, <<119362, 119364>>,
       <<121344, 121398>>, <<121403, 121452>>, <<121461, 121461>>,
       <<121476, 121476>>, <<121499, 121503>>, <<121505, 121519>>,
       <<122880, 122886>>, <<122888, 122904>>, <<122907, 122913>>,
       <<122915, 122916>>, <<122918, 122922>>, <<123184, 123197>>,
       <<123566, 123566>>, <<123628, 123631>>, <<125136, 125142>>,
       <<125252, 125259>>, <<127995, 127999>>, <<917505, 917505>>,
       <<917536, 917631>>, <<917760, 917999>> >>

InRanges(c, ranges) ==
    \E k \in 1..Len(ranges) : ranges[k][1] <= c /\ c <= ranges[k][2]

\* whether the capital sigma at s[i] ends a word: the nearest character
\* before it that is not case-ignorable is cased, the nearest after it is
\* not
FinalSigma(s, i) ==
    LET before == {j \in 1..(i - 1) : ~InRanges(s[j], CaseIgnorableRanges)}
        after == {j \in (i + 1)..Len(s) : ~InRanges(s[j], CaseIgnorableRanges)}
    IN  /\ before # {}
        /\ InRanges(s[CHOOSE j \in before : \A k \in before : k <= j], CasedRanges)
        /\ \/ after = {}
           \/ ~InRanges(s[CHOOSE j \in after : \A k \in after : j <= k], CasedRanges)

\* what str.lower() puts for the character at s[i]: one character, but for
\* the capital I with dot above, U+0130, which gives two
LowerChar(s, i) ==
    LET c == s[i]
    IN  IF c < 128 THEN <<IF 65 <= c /\ c <= 90 THEN c + 32 ELSE c>>
        ELSE IF c = 931 THEN <<IF FinalSigma(s, i) THEN 962 ELSE 963>>
        ELSE IF c = 304 THEN <<105, 775>>
        ELSE LET hits == {k \in 1..Len(LowerRuns) :
                             /\ LowerRuns[k][1] <= c
                             /\ c <= LowerRuns[k][2]
                             /\ (c - LowerRuns[k][1]) % LowerRuns[k][3] = 0}
             IN  IF hits = {} THEN <<c>>
                 ELSE <<c + LowerRuns[CHOOSE k \in hits : TRUE][4]>>

\* str.lower()
Lower(s) ==
    LET RECURSIVE from(_)
        from(i) == IF i > Len(s) THEN <<>> ELSE LowerChar(s, i) \o from(i + 1)
    IN  from(1)

\* str.startswith(prefix)
StartsWith(s, prefix) ==
    /\ Len(prefix) <= Len(s)
    /\ SubSeq(s, 1, Len(prefix)) = prefix

\* str.endswith(suffix)
EndsWith(s, suffix) ==
    /\ Len(suffix) <= Len(s)
    /\ SubSeq(s, Len(s) - Len(suffix) + 1, Len(s)) = suffix

\* str.strip(): leading and trailing whitespace removed
Strip(s) ==
    IF \A i \in 1..Len(s) : s[i] \in Whitespace THEN <<>>
    ELSE LET lead == CHOOSE k \in 0..(Len(s) - 1) :
                        /\ s[k + 1] \notin Whitespace
                        /\ \A j \in 1..k : s[j] \in Whitespace
             trail == CHOOSE k \in 0..(Len(s) - 1) :
                        /\ s[Len(s) - k] \notin Whitespace
                        /\ \A j \in 1..k : s[Len(s) - j + 1] \in Whitespace
         IN  SubSeq(s, lead + 1, Len(s) - trail)

\* the k-th smallest element of a finite set of integers
Kth(S, k) == CHOOSE i \in S : Cardinality({j \in S : j < i}) = k - 1

\* str.split(sep) for a one-character sep: the pieces between the
\* separators, empty pieces included
SplitOn(s, sep) ==
    LET seps == {i \in 1..Len(s) : s[i] = sep}
        n == Cardinality(seps)
        from(k) == IF k = 1 THEN 1 ELSE Kth(seps, k - 1) + 1
        to(k) == IF k = n + 1 THEN Len(s) ELSE Kth(seps, k) - 1
    IN  [k \in 1..(n + 1) |-> SubSeq(s, from(k), to(k))]

\* text.split('\n'): the empty text gives one empty line
SplitLines(s) == SplitOn(s, NewLine)

\* str.split(): runs of whitespace separate, no empty pieces
SplitFields(s) ==
    LET starts == {i \in 1..Len(s) :
                      /\ s[i] \notin Whitespace
                      /\ (i = 1 \/ s[i - 1] \in Whitespace)}
        ends == {i \in 1..Len(s) :
                      /\ s[i] \notin Whitespace
                      /\ (i = Len(s) \/ s[i + 1] \in Whitespace)}
    IN  [k \in 1..Cardinality(starts) |-> SubSeq(s, Kth(starts, k), Kth(ends, k))]

RECURSIVE Join(_)
\* the concatenation of a sequence of strings
Join(ss) == IF ss = <<>> THEN <<>> ELSE Head(ss) \o Join(Tail(ss))

\* the body of a literal that int() accepts after its sign: digits, with
\* single underscores between digits
IsIntBody(t) ==
    /\ t # <<>>
    /\ IsDigit(t[1])
    /\ IsDigit(t[Len(t)])
    /\ \A i \in 1..Len(t) : IsDigit(t[i]) \/ t[i] = Underscore
    /\ \A i \in 1..(Len(t) - 1) : ~(t[i] = Underscore /\ t[i + 1] = Underscore)

\* sys.int_info.default_max_str_digits: the most digits int() converts
MaxStrDigits == 4300

\* whether int(t) returns (TRUE) or raises ValueError (FALSE): the literal
\* is well written and has no more than MaxStrDigits digits, leading zeros
\* counted, underscores and sign not
IsIntLiteral(t) ==
    /\ t # <<>>
    /\ LET body == IF t[1] \in {Plus, Minus} THEN Tail(t) ELSE t
       IN  /\ IsIntBody(body)
           /\ Len(SelectSeq(body, IsDigit)) <= MaxStrDigits

\* the decimal digits of the magnitude of int(t), without leading zeros,
\* for a literal int() accepts
Magnitude(t) ==
    LET ds == SelectSeq(t, IsDigit)
        nz == {i \in 1..Len(ds) : DigitVal(ds[i]) # 0}
    IN  IF nz = {} THEN <<>>
        ELSE LET first == CHOOSE i \in nz : \A j \in nz : i <= j
             IN  [k \in 1..(Len(ds) - first + 1) |-> DigitVal(ds[first + k - 1])]

\* whether a >= b, for two magnitudes
AtLeast(a, b) ==
    IF Len(a) # Len(b) THEN Len(a) > Len(b)
    ELSE LET diff == {i \in 1..Len(a) : a[i] # b[i]}
         IN  \/ diff = {}
             \/ LET i == CHOOSE k \in diff : \A j \in diff : k <= j
                IN  a[i] > b[i]

\* 2^1024 - 2^970, the least magnitude that rounds beyond the doubles
FloatLimit ==
    Str("1797693134862315807937289714053034150799341327100378269361737789"
        \o "8044496829276475094664901797758720709633028641669288791094655554"
        \o "7851940402630657488671505820681908902000708383676273854845817711"
        \o "5317644757302700698555713669596228429148198608349364752927190741"
        \o "68444365510704342711559699508093042880177904174497792")

\* whether int(t) / 1000.0 raises OverflowError (int too large to convert
\* to float), for a literal int() accepts
FloatOverflows(t) ==
    AtLeast(Magnitude(t), [i \in 1..Len(FloatLimit) |-> FloatLimit[i] - Zero])

RECURSIVE DigitsValue(_, _)
DigitsValue(t, acc) ==
    IF t = <<>> THEN acc
    ELSE IF Head(t) = Underscore THEN DigitsValue(Tail(t), acc)
         ELSE DigitsValue(Tail(t), 10 * acc + DigitVal(Head(t)))

\* int(t) for a literal int() accepts
ParseInt(t) ==
    IF t[1] = Minus THEN 0 - DigitsValue(Tail(t), 0)
    ELSE IF t[1] = Plus THEN DigitsValue(Tail(t), 0)
    ELSE DigitsValue(t, 0)

RECURSIVE NatDigits(_)
\* the decimal digits of a natural number, no padding
NatDigits(n) ==
    IF n < 10 THEN <<Zero + n>>
    ELSE Append(NatDigits(n \div 10), Zero + (n % 10))

RECURSIVE ZeroPad(_, _)
ZeroPad(s, width) == IF Len(s) >= width THEN s ELSE ZeroPad(<<Zero>> \o s, width)

\* format(n, "03d"): the sign counts in the width, wider values are kept whole
Format03d(n) ==
    IF n < 0 THEN <<Minus>> \o ZeroPad(NatDigits(0 - n), 2)
    ELSE ZeroPad(NatDigits(n), 3)

(***************************************************************************)
(* IEEE-754 doubles: [neg, m, e] stands for (-1)^neg * m / 2^e, m a        *)
(* sequence of Precision bits starting with 1, or <<>> for zero.           *)
(***************************************************************************)

Precision == 53

\* the width of the limbs the significand is multiplied and divided in
LimbBits == 20

Limb == 2 ^ LimbBits

\* the widest natural number of the model: a 31-bit magnitude
IntBits == 31

\* the binary digits of n in exactly w places, most significant first
FixedBits(n, w) == [i \in 1..w |-> (n \div (2 ^ (w - i))) % 2]

\* bits without its leading zeros
StripZeros(bits) ==
    LET ones == {i \in 1..Len(bits) : bits[i] = 1}
    IN  IF ones = {} THEN <<>>
        ELSE SubSeq(bits, CHOOSE i \in ones : \A j \in ones : i <= j, Len(bits))

\* the binary digits of a natural number, most significant first
NatBits(n) == StripZeros(FixedBits(n, IntBits))

RECURSIVE BitsNat(_)
\* the natural number a sequence of at most IntBits bits stands for
BitsNat(bits) ==
    IF bits = <<>> THEN 0
    ELSE 2 * BitsNat(SubSeq(bits, 1, Len(bits) - 1)) + bits[Len(bits)]

\* bits + 1; all ones grow by one bit
IncBits(bits) ==
    LET zeros == {i \in 1..Len(bits) : bits[i] = 0}
    IN  IF zeros = {} THEN <<1>> \o [i \in 1..Len(bits) |-> 0]
        ELSE LET z == CHOOSE i \in zeros : \A j \in zeros : j <= i
             IN  [i \in 1..Len(bits) |->
                    IF i < z THEN bits[i] ELSE IF i = z THEN 1 ELSE 0]

\* m / 2^e rounded up in its last place, kept at Precision bits
RoundUp(m, e) ==
    LET up == IncBits(m)
    IN  IF Len(up) > Precision
        THEN [m |-> SubSeq(up, 1, Precision), e |-> e - 1]
        ELSE [m |-> up, e |-> e]

\* p / 2^e rounded to Precision bits, ties to even; rest tells whether
\* nonzero digits follow those of p
RoundBits(p, e, rest) ==
    IF Len(p) <= Precision
    THEN [m |-> p \o [i \in 1..(Precision - Len(p)) |-> 0],
          e |-> e + (Precision - Len(p))]
    ELSE LET d == Len(p) - Precision
             kept == SubSeq(p, 1, Precision)
             guard == p[Precision + 1]
             sticky == rest \/ \E i \in (Precision + 2)..Len(p) : p[i] = 1
             up == guard = 1 /\ (sticky \/ kept[Precision] = 1)
         IN  IF up THEN RoundUp(kept, e - d) ELSE [m |-> kept, e |-> e - d]

\* the double nearest to a / b (ties to even), for naturals a and
\* 0 < b <= 2000: the quotient's integer part, then four limbs of its
\* fraction by long division
DivNat(a, b) ==
    IF a = 0 THEN [m |-> <<>>, e |-> 0]
    ELSE LET r0 == a % b
             d1 == (r0 * Limb) \div b
             r1 == (r0 * Limb) % b
             d2 == (r1 * Limb) \div b
             r2 == (r1 * Limb) % b
             d3 == (r2 * Limb) \div b
             r3 == (r2 * Limb) % b
             d4 == (r3 * Limb) \div b
             r4 == (r3 * Limb) % b
             digits == FixedBits(a \div b, IntBits) \o FixedBits(d1, LimbBits)
                         \o FixedBits(d2, LimbBits) \o FixedBits(d3, LimbBits)
                         \o FixedBits(d4, LimbBits)
             p == StripZeros(digits)
         IN  RoundBits(p, 4 * LimbBits, r4 # 0)

\* int / 1000.0
DivBy1000(n) ==
    LET q == DivNat(IF n < 0 THEN 0 - n ELSE n, 1000)
    IN  [neg |-> n < 0 /\ q.m # <<>>, m |-> q.m, e |-> q.e]

\* a full significand times k, for a natural k <= 2000, limb by limb
MulSmall(m, k) ==
    LET lo == BitsNat(SubSeq(m, Precision - LimbBits + 1, Precision))
        mid == BitsNat(SubSeq(m, Precision - 2 * LimbBits + 1, Precision - LimbBits))
        hi == BitsNat(SubSeq(m, 1, Precision - 2 * LimbBits))
        p0 == lo * k
        p1 == mid * k + (p0 \div Limb)
        p2 == hi * k + (p1 \div Limb)
    IN  NatBits(p2) \o FixedBits(p1 % Limb, LimbBits) \o FixedBits(p0 % Limb, LimbBits)

\* float * 1000
MulBy1000(x) ==
    IF x.m = <<>> THEN x
    ELSE LET r == RoundBits(MulSmall(x.m, 1000), x.e, FALSE)
         IN  [neg |-> x.neg, m |-> r.m, e |-> r.e]

\* int(float): truncation toward zero
TruncInt(x) ==
    IF x.m = <<>> \/ x.e >= Len(x.m) THEN 0
    ELSE LET mag == BitsNat(SubSeq(x.m, 1, Len(x.m) - x.e))
         IN  IF x.neg THEN 0 - mag ELSE mag

(***************************************************************************)
(* The codec                                                               *)
(***************************************************************************)

\* pretty_midi.Note(velocity, pitch, start, end): start and end in seconds
Note(velocity, pitch, start, end) ==
    [velocity |-> velocity, pitch |-> pitch, start |-> start, end |-> end]

\* pretty_midi.Instrument(program, is_drum), its notes given
Instrument(program, is_drum, notes) ==
    [program |-> program, is_drum |-> is_drum, notes |-> notes]

\* the velocity of a line that has no fourth field
DefaultVelocity == 100

\* len(note_values) < 3: the line is logged and skipped
LineSkipped(note_values) == Len(note_values) < 3

\* whether map(int, note_values[:3]) or int(note_values[3]) raises ValueError
LineRaises(note_values) ==
    \/ \E j \in 1..3 : ~IsIntLiteral(note_values[j])
    \/ Len(note_values) >= 4 /\ ~IsIntLiteral(note_values[4])

\* whether start_time / 1000.0 or end_time / 1000.0 raises OverflowError,
\* for a line whose fields int() accepts
LineOverflows(note_values) ==
    FloatOverflows(note_values[2]) \/ FloatOverflows(note_values[3])

\* the Note of a line that is neither skipped nor raises
LineNote(note_values) ==
    LET pitch == ParseInt(note_values[1])
        start_time == ParseInt(note_values[2])
        end_time == ParseInt(note_values[3])
        velocity == IF Len(note_values) >= 4 THEN ParseInt(note_values[4])
                    ELSE DefaultVelocity
    IN  Note(velocity, pitch, DivBy1000(start_time), DivBy1000(end_time))

RECURSIVE DecodeLoop(_, _)
\* the for loop of convert_text_to_midi over note_strings, notes being the
\* instrument's notes so far: the notes at the end, or the error raised
DecodeLoop(note_strings, notes) ==
    IF note_strings = <<>> THEN [raised |-> "none", notes |-> notes]
    ELSE LET note_values == SplitFields(Head(note_strings))
         IN  IF LineSkipped(note_values)
             THEN DecodeLoop(Tail(note_strings), notes)
             ELSE IF LineRaises(note_values)
                  THEN [raised |-> "ValueError", notes |-> <<>>]
                  ELSE IF LineOverflows(note_values)
                       THEN [raised |-> "OverflowError", notes |-> <<>>]
                       ELSE DecodeLoop(Tail(note_strings),
                                       Append(notes, LineNote(note_values)))

\* convert_text_to_midi: the PrettyMIDI returned (its instruments), or the
\* error that leaves the function
convert_text_to_midi(text_data) ==
    LET note_strings == SplitLines(Strip(text_data))
        loop == DecodeLoop(note_strings, <<>>)
    IN  IF loop.raised # "none"
        THEN [raised |-> loop.raised, instruments |-> <<>>]
        ELSE [raised |-> "none",
              instruments |-> <<Instrument(0, FALSE, loop.notes)>>]

\* the four integers a Note is written as
NoteFields(note) ==
    <<note.pitch, TruncInt(MulBy1000(note.start)),
      TruncInt(MulBy1000(note.end)), note.velocity>>

\* the line of four 03d fields
EncodeLine(f) ==
    Format03d(f[1]) \o <<Space>> \o Format03d(f[2]) \o <<Space>>
        \o Format03d(f[3]) \o <<Space>> \o Format03d(f[4]) \o <<NewLine>>

RECURSIVE EncodeNotes(_)
\* the inner loop of generate_midi_text_from_files over one instrument
EncodeNotes(notes) ==
    IF notes = <<>> THEN <<>>
    ELSE EncodeLine(NoteFields(Head(notes))) \o EncodeNotes(Tail(notes))

RECURSIVE EncodeInstruments(_)
\* the loop over midi.instruments
EncodeInstruments(instruments) ==
    IF instruments = <<>> THEN <<>>
    ELSE EncodeNotes(Head(instruments).notes)
            \o EncodeInstruments(Tail(instruments))

RECURSIVE AllNoteFields(_)
\* the integers written for every note of every instrument, in order
AllNoteFields(instruments) ==
    IF instruments = <<>> THEN <<>>
    ELSE [i \in 1..Len(Head(instruments).notes) |->
             NoteFields(Head(instruments).notes[i])]
            \o AllNoteFields(Tail(instruments))

(***************************************************************************)
(* Inputs of the codec                                                     *)
(***************************************************************************)

\* the most lines of a text drawn from LineSamples
MaxLines == 3

\* the most notes of a sequence drawn from NoteSamples
MaxNotes == 2

\* lines with what they hold: class wf3 and wf4 are well-formed lines of 3
\* and 4 fields, short has fewer than 3 fields, long more than 4, notint a
\* field that is no integer literal; note is <<pitch, start, end,
\* velocity>> in the line's own units, left empty where an integer of the
\* line is wider than IntBits
LineSamples ==
    { 
      [chars |-> Str("060 000 500 090"),
       class |-> "wf4", note |-> <<60, 0, 500, 90>>],
      [chars |-> <<1782>> \o Str("1") \o <<11>> \o Str("5") \o <<28>> \o Str("100")
                    \o <<3559>>,
       class |-> "wf3", note |-> <<61, 5, 1001, 100>>],
      [chars |-> <<31>> \o Str("62 ") \o <<160>> \o Str("1000\t2046") \o <<5760>>
                    \o Str("127") \o <<133, 8195>>,
       class |-> "wf4", note |-> <<62, 1000, 2046, 127>>],
      [chars |-> Str("+64 1_000 -5"),
       class |-> "wf3", note |-> <<64, 1000, -5, 100>>],
      [chars |-> Str("60 0 ") \o [i \in 1..(MaxStrDigits + 1) |-> Zero + 1],
       class |-> "wf3", note |-> <<>>],
      [chars |-> Str("61 ") \o FloatLimit \o Str(" 0 90"),
       class |-> "wf4", note |-> <<>>],
      [chars |-> <<>>,
       class |-> "short", note |-> <<>>],
      [chars |-> Str("60 0"),
       class |-> "short", note |-> <<>>],
      [chars |-> Str(" \t") \o <<29, 30, 12288>> \o Str("\f\r"),
       class |-> "short", note |-> <<>>],
      [chars |-> Str("x"),
       class |-> "short", note |-> <<>>],
      [chars |-> Str("65 1 2 3 4"),
       class |-> "long", note |-> <<65, 1, 2, 3>>],
      [chars |-> Str("60 0 5.0"),
       class |-> "notint", note |-> <<>>],
      [chars |-> Str("a b c"),
       class |-> "notint", note |-> <<>>],
      [chars |-> Str("60 0 500 f"),
       class |-> "notint", note |-> <<>>]
    }

\* notes of whole milliseconds: the representatives 0, 1, 999, 1000, 123456,
\* and the values 1001 and 2046
NoteSamples ==
    {<<60, 0, 500, 90>>, <<0, 1, 999, 127>>, <<127, 1000, 123456, 0>>}
        \cup {<<64, ms, ms, 100>> : ms \in {1001, 2046}}

\* the sequences over S of length at most n
SeqsUpTo(S, n) == UNION {[1..k -> S] : k \in 0..n}

RECURSIVE JoinLines(_)
\* '\n'.join(lines)
JoinLines(lines) ==
    IF lines = <<>> THEN <<>>
    ELSE IF Len(lines) = 1 THEN Head(lines)
         ELSE Head(lines) \o <<NewLine>> \o JoinLines(Tail(lines))

(***************************************************************************)
(* The corpus selector and the reference text                              *)
(***************************************************************************)

\* an optional value: None, or Some(v)
None == <<>>

Some(v) == <<v>>

ValueOf(o) == o[1]

\* what a for loop over a str yields: its characters, each a str
IterStr(s) == [i \in 1..Len(s) |-> <<s[i]>>]

\* os.getcwd()
Cwd == Str("/app")

\* os.path.join(a, b): b alone when it is absolute, else a and b with one
\* separator between them unless a is empty or ends with one
PathJoin(a, b) ==
    IF b # <<>> /\ b[1] = Slash THEN b
    ELSE IF a = <<>> \/ a[Len(a)] = Slash THEN a \o b
    ELSE a \o <<Slash>> \o b

\* os.path.basename
BaseName(path) ==
    LET slashes == {i \in 1..Len(path) : path[i] = Slash}
    IN  IF slashes = {} THEN path
        ELSE SubSeq(path, (CHOOSE i \in slashes : \A j \in slashes : j <= i) + 1,
                    Len(path))

\* os.path.splitext(p)[0]: p up to its last dot, when that dot comes
\* after the last separator and after a character of the file name that is
\* no dot
SplitExtRoot(p) ==
    LET seps == {i \in 1..Len(p) : p[i] = Slash}
        dots == {i \in 1..Len(p) : p[i] = Dot}
        sepIndex == IF seps = {} THEN 0 ELSE CHOOSE i \in seps : \A j \in seps : j <= i
        dotIndex == IF dots = {} THEN 0 ELSE CHOOSE i \in dots : \A j \in dots : j <= i
    IN  IF dotIndex > sepIndex /\ \E j \in (sepIndex + 1)..(dotIndex - 1) : p[j] # Dot
        THEN SubSeq(p, 1, dotIndex - 1)
        ELSE p

MidExtension == Str(".mid")

\* the condition of the comprehension of get_filtered_midi_files for the
\* directory entry f, keywords being what iterating style_keywords yields
FileMatches(f, keywords) ==
    /\ EndsWith(Lower(f), MidExtension)
    /\ \E k \in 1..Len(keywords) : StartsWith(Lower(f), Lower(keywords[k]))

\* the entries of a listing that end with .mid
MidEntries(all_files) ==
    {i \in 1..Len(all_files) : EndsWith(Lower(all_files[i]), MidExtension)}

\* get_filtered_midi_files(style_keywords): style_keywords is None or
\* Some(str); all_files is Some(what os.listdir returns), or None when it
\* raises.  Iterating None raises TypeError, which
\* any() does when the first entry that ends with .mid is reached
get_filtered_midi_files(style_keywords, all_files) ==
    LET folder_path == PathJoin(Cwd, Str("mids"))
    IN  IF all_files = None
        THEN [raised |-> "FileNotFoundError", files |-> <<>>]
        ELSE IF style_keywords = None
             THEN IF MidEntries(ValueOf(all_files)) # {}
                  THEN [raised |-> "TypeError", files |-> <<>>]
                  ELSE [raised |-> "none", files |-> <<>>]
             ELSE LET keep == {i \in 1..Len(ValueOf(all_files)) :
                                  FileMatches(ValueOf(all_files)[i],
                                              IterStr(ValueOf(style_keywords)))}
                  IN  [raised |-> "none",
                       files |-> [k \in 1..Cardinality(keep) |->
                                     PathJoin(folder_path,
                                              ValueOf(all_files)[Kth(keep, k)])]]

\* the directory entry a path names, in a corpus: a sequence of
\* [name, isfile, loads, instruments]
EntryAt(path, corpus) ==
    LET hits == {i \in 1..Len(corpus) : corpus[i].name = BaseName(path)}
    IN  IF hits = {} THEN [name |-> BaseName(path), isfile |-> FALSE,
                           loads |-> FALSE, instruments |-> <<>>]
        ELSE corpus[CHOOSE i \in hits : TRUE]

\* one round of the loop of generate_midi_text_from_files: what the file
\* adds to combined_note_string
FileText(path, corpus) ==
    LET entry == EntryAt(path, corpus)
    IN  IF ~entry.isfile THEN <<>>
        ELSE IF ~entry.loads THEN <<>>
        ELSE EncodeInstruments(entry.instruments)

\* generate_midi_text_from_files(midi_file_paths)
generate_midi_text_from_files(midi_file_paths, corpus) ==
    Join([i \in 1..Len(midi_file_paths) |-> FileText(midi_file_paths[i], corpus)])

(***************************************************************************)
(* The tempo adapter and the generative service                            *)
(***************************************************************************)

\* str(bpm): the sentinel is the int 0, an estimate a float
StrBpm(bpm) ==
    IF bpm.float THEN NatDigits(bpm.val) \o <<Dot, Zero>> ELSE NatDigits(bpm.val)

\* the tempo get_bpm_from_wav returns when librosa raises
SentinelTempo == [float |-> FALSE, val |-> 0]

\* get_bpm_from_wav(wav_file): wav is the content of the file read
get_bpm_from_wav(wav) ==
    IF wav.estimable THEN [float |-> TRUE, val |-> wav.tempo] ELSE SentinelTempo

PromptHead ==
    Str("Generate new MIDI data with a BPM of ")

PromptMid ==
    Str(" using the following data as a template:\n\n")

PromptTail ==
    Str("\n\nPlease provide the new MIDI data with the same number of lines.")

\* the prompt of get_midi_modifications_from_gpt3
Prompt(bpm, text) == PromptHead \o StrBpm(bpm) \o PromptMid \o text \o PromptTail

\* what the service answers to a prompt, by its behaviour; None: it raises
NotesReply ==
    Str(" MIDI:\n062 100 400 080\n064 400 800\n")

Behaviours == {"raise", "echo", "notes"}

Complete(behaviour, prompt) ==
    CASE behaviour = "raise" -> None
      [] behaviour = "echo" -> Some(prompt)
      [] behaviour = "notes" -> Some(NotesReply)

\* when the service raises, the template is returned in place of ""
get_midi_modifications_from_gpt3Mutant(bpm, text, behaviour) ==
    LET prompt == Prompt(bpm, text)
        reply == Complete(behaviour, prompt)
    IN  [prompt |-> prompt,
         text |-> IF reply = None THEN Strip(text) ELSE Strip(ValueOf(reply))]

\* get_midi_modifications_from_gpt3(bpm, text): the prompt sent and the
\* instructions returned, reply being the service's answer to the prompt
get_midi_modifications_from_gpt3(bpm, text, behaviour) ==
    LET prompt == Prompt(bpm, text)
        reply == Complete(behaviour, prompt)
    IN  [prompt |-> prompt,
         text |-> IF reply = None THEN <<>> ELSE Strip(ValueOf(reply))]

(***************************************************************************)
(* Inputs of the pipeline                                                  *)
(***************************************************************************)

\* a note as pretty_midi loads it from a file written in whole milliseconds
FileNote(pitch, start_ms, end_ms, velocity) ==
    Note(velocity, pitch, DivBy1000(start_ms), DivBy1000(end_ms))

Entry(name, isfile, loads, instruments) ==
    [name |-> name, isfile |-> isfile, loads |-> loads, instruments |-> instruments]

JazzOne == Str("jazz_1.mid")

\* a corpus with one file for the keyword jazz, of one note
CorpusOne ==
    << Entry(JazzOne, TRUE, TRUE,
             <<Instrument(0, FALSE, <<FileNote(60, 0, 500, 90)>>)>>),
       Entry(Str("rock_2.mid"), TRUE, TRUE,
             <<Instrument(30, FALSE, <<FileNote(40, 0, 250, 100)>>)>>),
       Entry(Str("notes.txt"), TRUE, FALSE, <<>>) >>

\* a corpus with entries of every kind: files of several instruments, a
\* file that is no note sequence, a file named after no style, a
\* directory, a file pretty_midi cannot load
CorpusMany ==
    << Entry(JazzOne, TRUE, TRUE,
             <<Instrument(0, FALSE, <<FileNote(60, 0, 500, 90)>>)>>),
       Entry(Str("rock_2.mid"), TRUE, TRUE,
             <<Instrument(30, FALSE, <<FileNote(40, 0, 250, 100)>>)>>),
       Entry(Str("Jazz_solo.mid"), TRUE, TRUE,
             <<Instrument(0, FALSE, <<FileNote(62, 1000, 2046, 80)>>),
               Instrument(9, TRUE, <<FileNote(36, 1001, 1500, 127)>>)>>),
       Entry(Str("blues.txt"), TRUE, FALSE, <<>>),
       Entry(Str("zebra.mid"), TRUE, TRUE,
             <<Instrument(0, FALSE, <<FileNote(72, 5, 10, 64)>>)>>),
       Entry(Str("JAZZ_old.MID"), FALSE, FALSE, <<>>),
       Entry(Str("jazz_bad.mid"), TRUE, FALSE, <<>>) >>

Corpora == {CorpusOne, CorpusMany}

\* os.listdir of the corpus directory
Listing(corpus) == [i \in 1..Len(corpus) |-> corpus[i].name]

\* an uploaded file: whether AudioSegment.from_file decodes it, whether
\* librosa estimates its tempo, and the tempo
Upload(name, decodable, estimable, tempo) ==
    [name |-> name, decodable |-> decodable, estimable |-> estimable, tempo |-> tempo]

Uploads ==
    { Upload(Str("song.wav"), TRUE, TRUE, 120),
      Upload(Str("my.take.wav"), TRUE, FALSE, 0),
      Upload(Str("song.wav"), FALSE, FALSE, 0) }

Jazz == Str("jazz")

\* request.POST.get('styleList'): None, or the field's text
Styles == {None, Some(<<>>), Some(Jazz)}

RequestSamples ==
    {[method |-> "GET", file |-> None, style |-> None]}
        \cup {[method |-> "POST", file |-> f, style |-> st] :
                 f \in {None} \cup {Some(u) : u \in Uploads}, st \in Styles}

Requests == {"A", "B"}

MidiExtension == Str(".midi")

(***************************************************************************)
(* State: a run of the codec on its own, and the requests in flight       *)
(***************************************************************************)

VARIABLES
    cpc,      \* codec run: "start", "decoded", "encoded", "failed"
    cfrom,    \* how the text was made: "lines" or "notes"
    cinput,   \* the line samples, or the notes' integers, the text is made of
    ctext,    \* the text given to convert_text_to_midi
    cmidi,    \* what convert_text_to_midi returned
    cback     \* the integers written when cmidi's notes are encoded again

cvars == <<cpc, cfrom, cinput, ctext, cmidi, cback>>

VARIABLES
    corpus,     \* the entries of the mids directory
    tempWav,    \* temp.wav: None, or Some(the audio exported last)
    disk,       \* the note-sequence files of the working directory, by path
    pc,         \* where each request's upload() stands
    req,        \* each request
    bpm,        \* upload's bpm
    files,      \* what get_filtered_midi_files returned
    refText,    \* upload's midi_text_sample
    genText,    \* upload's gpt3_midi_text
    midi,       \* upload's midi_data
    saved,      \* upload's saved_filepath
    response,   \* the response returned, None while there is none
    trace,      \* the stages each request ran, in order
    calls,      \* the prompts each request sent to the generative service
    tempoRead,  \* the request whose audio each tempo was estimated from
    raisedAt,   \* the stage whose failure left upload's try block
    genFailed,  \* whether the call of the generative service raised
    written,    \* what each request's save_midi_to_disk wrote
    existed,    \* what os.path.exists(saved_filepath) answered
    serial      \* no request has arrived while another was in flight

pvars == <<corpus, tempWav, disk, pc, req, bpm, files, refText, genText, midi,
           saved, response, trace, calls, tempoRead, raisedAt, genFailed,
           written, existed, serial>>

vars == <<cvars, pvars>>

(***************************************************************************)
(* The codec on its own                                                    *)
(***************************************************************************)

NoMidi == [raised |-> "none", instruments |-> <<>>]

CodecInit ==
    /\ cpc = "start"
    /\ cmidi = NoMidi
    /\ cback = <<>>
    /\ \/ /\ cfrom = "lines"
          /\ cinput \in SeqsUpTo(LineSamples, MaxLines)
          /\ ctext = JoinLines([i \in 1..Len(cinput) |-> cinput[i].chars])
       \/ /\ cfrom = "notes"
          /\ cinput \in SeqsUpTo(NoteSamples, MaxNotes)
          /\ ctext = Join([i \in 1..Len(cinput) |-> EncodeLine(cinput[i])])

\* convert_text_to_midi(ctext)
Decode ==
    /\ cpc = "start"
    /\ cmidi' = convert_text_to_midi(ctext)
    /\ cpc' = IF cmidi'.raised = "none" THEN "decoded" ELSE "failed"
    /\ UNCHANGED <<cfrom, cinput, ctext, cback, pvars>>

\* the notes decoded are written as text again
Encode ==
    /\ cpc = "decoded"
    /\ cback' = AllNoteFields(cmidi.instruments)
    /\ cpc' = "encoded"
    /\ UNCHANGED <<cfrom, cinput, ctext, cmidi, pvars>>

CodecNext == Decode \/ Encode

(***************************************************************************)
(* The upload pipeline                                                     *)
(***************************************************************************)

NoRequest == [method |-> "none", file |-> None, style |-> None]

JsonResponse(error, status) == [status |-> status, kind |-> "json", error |-> error]

\* the FileResponse of upload, with its Content-Disposition filename
FileResponse(body, filename) ==
    [status |-> 200, kind |-> "file", body |-> body, filename |-> filename]

HttpResponse(text, status) == [status |-> status, kind |-> "text", text |-> text]

PipelineInit ==
    /\ corpus \in Corpora
    /\ tempWav = None
    /\ disk = <<>>
    /\ pc = [r \in Requests |-> "idle"]
    /\ req = [r \in Requests |-> NoRequest]
    /\ bpm = [r \in Requests |-> SentinelTempo]
    /\ files = [r \in Requests |-> <<>>]
    /\ refText = [r \in Requests |-> <<>>]
    /\ genText = [r \in Requests |-> <<>>]
    /\ midi = [r \in Requests |-> NoMidi]
    /\ saved = [r \in Requests |-> <<>>]
    /\ response = [r \in Requests |-> None]
    /\ trace = [r \in Requests |-> <<>>]
    /\ calls = [r \in Requests |-> <<>>]
    /\ tempoRead = [r \in Requests |-> "none"]
    /\ raisedAt = [r \in Requests |-> "none"]
    /\ genFailed = [r \in Requests |-> FALSE]
    /\ written = [r \in Requests |-> None]
    /\ existed = [r \in Requests |-> None]
    /\ serial = TRUE

\* the idle codec, while the pipeline runs
CodecIdle ==
    /\ cpc = "idle"
    /\ cfrom = "none"
    /\ cinput = <<>>
    /\ ctext = <<>>
    /\ cmidi = NoMidi
    /\ cback = <<>>

Init == PipelineInit /\ CodecIdle

\* the except clause of upload: the failure of a stage becomes a 500
Raise(r, stage, error) ==
    /\ response' = [response EXCEPT ![r] = Some(JsonResponse(error, 500))]
    /\ raisedAt' = [raisedAt EXCEPT ![r] = stage]
    /\ trace' = [trace EXCEPT ![r] =
                    (IF stage \in {"Export", "Respond"} THEN @ ELSE Append(@, stage))
                        \o <<"Respond">>]
    /\ pc' = [pc EXCEPT ![r] = "done"]

\* the stage is over and the next one is due
Advance(r, stage, next) ==
    /\ trace' = [trace EXCEPT ![r] = Append(@, stage)]
    /\ pc' = [pc EXCEPT ![r] = next]

\* the hosting environment hands a request to upload()
Arrive(r) ==
    /\ pc[r] = "idle"
    /\ \E s \in RequestSamples : req' = [req EXCEPT ![r] = s]
    /\ pc' = [pc EXCEPT ![r] = "Validate"]
    /\ serial' = (serial /\ \A o \in Requests \ {r} : pc[o] \in {"idle", "done"})
    /\ UNCHANGED <<cvars, corpus, tempWav, disk, bpm, files, refText, genText, midi,
                   saved, response, trace, calls, tempoRead, raisedAt,
                   genFailed, written, existed>>

\* the method check, then request.FILES["file"] and request.POST.get
Validate(r) ==
    /\ pc[r] = "Validate"
    /\ IF req[r].method # "POST"
       THEN /\ response' = [response EXCEPT ![r] =
                   Some(JsonResponse("Only POST method is allowed", 405))]
            /\ trace' = [trace EXCEPT ![r] = <<"Validate", "Respond">>]
            /\ pc' = [pc EXCEPT ![r] = "done"]
            /\ UNCHANGED raisedAt
       ELSE IF req[r].file = None
            THEN Raise(r, "Validate", "MultiValueDictKeyError")
            ELSE Advance(r, "Validate", "DecodeAudio") /\ UNCHANGED <<response, raisedAt>>
    /\ UNCHANGED <<cvars, corpus, tempWav, disk, req, bpm, files, refText, genText,
                   midi, saved, calls, tempoRead, genFailed, written, existed, serial>>

\* AudioSegment.from_file(uploaded_file, format="wav")
DecodeAudio(r) ==
    /\ pc[r] = "DecodeAudio"
    /\ IF ~ValueOf(req[r].file).decodable
       THEN Raise(r, "DecodeAudio", "CouldntDecodeError")
       ELSE Advance(r, "DecodeAudio", "Export") /\ UNCHANGED <<response, raisedAt>>
    /\ UNCHANGED <<cvars, corpus, tempWav, disk, req, bpm, files, refText, genText,
                   midi, saved, calls, tempoRead, genFailed, written, existed, serial>>

\* the export is skipped when temp.wav is there already
ExportedMutant(r, old) ==
    IF old # None THEN old
    ELSE Some([estimable |-> ValueOf(req[r].file).estimable,
               tempo |-> ValueOf(req[r].file).tempo,
               writer |-> r])

\* what audio.export leaves in temp.wav, old being what it held
Exported(r, old) ==
    Some([estimable |-> ValueOf(req[r].file).estimable,
          tempo |-> ValueOf(req[r].file).tempo,
          writer |-> r])

\* audio.export(TEMP_WAV_FILENAME, format="wav"), which the file system
\* may refuse
Export(r) ==
    /\ pc[r] = "Export"
    /\ \E ok \in BOOLEAN :
          IF ok
          THEN /\ tempWav' = Exported(r, tempWav)
               /\ pc' = [pc EXCEPT ![r] = "EstimateTempo"]
               /\ UNCHANGED <<response, raisedAt, trace>>
          ELSE /\ Raise(r, "Export", "OSError")
               /\ UNCHANGED tempWav
    /\ UNCHANGED <<cvars, corpus, disk, req, bpm, files, refText, genText, midi,
                   saved, calls, tempoRead, genFailed, written, existed, serial>>

\* bpm = get_bpm_from_wav(TEMP_WAV_FILENAME)
EstimateTempo(r) ==
    /\ pc[r] = "EstimateTempo"
    /\ bpm' = [bpm EXCEPT ![r] = get_bpm_from_wav(ValueOf(tempWav))]
    /\ tempoRead' = [tempoRead EXCEPT ![r] = ValueOf(tempWav).writer]
    /\ Advance(r, "EstimateTempo", "SelectCorpus")
    /\ UNCHANGED <<cvars, corpus, tempWav, disk, req, files, refText, genText, midi,
                   saved, response, calls, raisedAt, genFailed, written, existed, serial>>

\* get_filtered_midi_files(style_list), os.listdir answering or raising
SelectCorpus(r) ==
    /\ pc[r] = "SelectCorpus"
    /\ \E all_files \in {None, Some(Listing(corpus))} :
          LET got == get_filtered_midi_files(req[r].style, all_files)
          IN  IF got.raised # "none"
              THEN Raise(r, "SelectCorpus", got.raised) /\ UNCHANGED files
              ELSE /\ files' = [files EXCEPT ![r] = got.files]
                   /\ Advance(r, "SelectCorpus", "EncodeReference")
                   /\ UNCHANGED <<response, raisedAt>>
    /\ UNCHANGED <<cvars, corpus, tempWav, disk, req, bpm, refText, genText, midi,
                   saved, calls, tempoRead, genFailed, written, existed, serial>>

\* midi_text_sample = generate_midi_text_from_files(...)
EncodeReference(r) ==
    /\ pc[r] = "EncodeReference"
    /\ refText' = [refText EXCEPT ![r] = generate_midi_text_from_files(files[r], corpus)]
    /\ Advance(r, "EncodeReference", "Generate")
    /\ UNCHANGED <<cvars, corpus, tempWav, disk, req, bpm, files, genText, midi, saved,
                   response, calls, tempoRead, raisedAt, genFailed, written, existed, serial>>

\* the call of the service is made again when it raised
GenerateMutant(r) ==
    /\ pc[r] = "Generate"
    /\ \E behaviour \in Behaviours :
          LET got == get_midi_modifications_from_gpt3(bpm[r], refText[r], behaviour)
          IN  /\ calls' = [calls EXCEPT ![r] =
                     IF behaviour = "raise" THEN @ \o <<got.prompt, got.prompt>>
                     ELSE Append(@, got.prompt)]
              /\ genText' = [genText EXCEPT ![r] = got.text]
              /\ genFailed' = [genFailed EXCEPT ![r] = behaviour = "raise"]
    /\ Advance(r, "Generate", "DecodeResult")
    /\ UNCHANGED <<cvars, corpus, tempWav, disk, req, bpm, files, refText, midi, saved,
                   response, tempoRead, raisedAt, written, existed, serial>>

\* gpt3_midi_text = get_midi_modifications_from_gpt3(bpm, midi_text_sample)
Generate(r) ==
    /\ pc[r] = "Generate"
    /\ \E behaviour \in Behaviours :
          LET got == get_midi_modifications_from_gpt3(bpm[r], refText[r], behaviour)
          IN  /\ calls' = [calls EXCEPT ![r] = Append(@, got.prompt)]
              /\ genText' = [genText EXCEPT ![r] = got.text]
              /\ genFailed' = [genFailed EXCEPT ![r] = behaviour = "raise"]
    /\ Advance(r, "Generate", "DecodeResult")
    /\ UNCHANGED <<cvars, corpus, tempWav, disk, req, bpm, files, refText, midi, saved,
                   response, tempoRead, raisedAt, written, existed, serial>>

\* midi_data = convert_text_to_midi(gpt3_midi_text)
DecodeResult(r) ==
    /\ pc[r] = "DecodeResult"
    /\ LET got == convert_text_to_midi(genText[r])
       IN  IF got.raised # "none"
           THEN Raise(r, "DecodeResult", got.raised) /\ UNCHANGED midi
           ELSE /\ midi' = [midi EXCEPT ![r] = got]
                /\ Advance(r, "DecodeResult", "Persist")
                /\ UNCHANGED <<response, raisedAt>>
    /\ UNCHANGED <<cvars, corpus, tempWav, disk, req, bpm, files, refText, genText,
                   saved, calls, tempoRead, genFailed, written, existed, serial>>

\* the path save_midi_to_disk writes: the upload's name with .midi for its
\* extension, in the working directory
SavePath(r) ==
    PathJoin(Cwd, SplitExtRoot(ValueOf(req[r].file).name) \o MidiExtension)

\* the files of the working directory once content is written at path
Write(files_, path, content) ==
    [q \in DOMAIN files_ \cup {path} |-> IF q = path THEN content ELSE files_[q]]

\* the files of the working directory without the one at path
Remove(files_, path) == [q \in DOMAIN files_ \ {path} |-> files_[q]]

\* save_midi_to_disk(midi_data, os.getcwd(), ...): the file is written, or
\* midi.write raises, or the file written is gone when upload looks for it
Persist(r) ==
    /\ pc[r] = "Persist"
    /\ \E outcome \in {"written", "raised", "gone"} :
          IF outcome = "raised"
          THEN Raise(r, "Persist", "OSError") /\ UNCHANGED <<disk, saved, written>>
          ELSE /\ disk' = IF outcome = "written"
                          THEN Write(disk, SavePath(r), midi[r])
                          ELSE Remove(disk, SavePath(r))
               /\ saved' = [saved EXCEPT ![r] = SavePath(r)]
               /\ written' = [written EXCEPT ![r] = Some(midi[r])]
               /\ Advance(r, "Persist", "Respond")
               /\ UNCHANGED <<response, raisedAt>>
    /\ UNCHANGED <<cvars, corpus, tempWav, req, bpm, files, refText, genText, midi,
                   calls, tempoRead, genFailed, existed, serial>>

\* if os.path.exists(saved_filepath): the 404 when the file is not there,
\* else the file is opened next
Respond(r) ==
    /\ pc[r] = "Respond"
    /\ existed' = [existed EXCEPT ![r] = Some(saved[r] \in DOMAIN disk)]
    /\ IF saved[r] \in DOMAIN disk
       THEN /\ pc' = [pc EXCEPT ![r] = "OpenSaved"]
            /\ UNCHANGED <<response, trace>>
       ELSE /\ response' = [response EXCEPT ![r] =
                   Some(HttpResponse("File not found", 404))]
            /\ Advance(r, "Respond", "done")
    /\ UNCHANGED <<cvars, corpus, tempWav, disk, req, bpm, files, refText, genText,
                   midi, saved, calls, tempoRead, raisedAt, genFailed, written,
                   serial>>

\* open(saved_filepath, "rb") and the FileResponse of the file as it is now:
\* open raises FileNotFoundError when the file has gone since
\* os.path.exists answered, and the file system may refuse it
OpenSaved(r) ==
    /\ pc[r] = "OpenSaved"
    /\ \E ok \in BOOLEAN :
          IF saved[r] \notin DOMAIN disk
          THEN Raise(r, "Respond", "FileNotFoundError")
          ELSE IF ~ok
               THEN Raise(r, "Respond", "OSError")
               ELSE /\ response' = [response EXCEPT ![r] =
                           Some(FileResponse(disk[saved[r]], BaseName(saved[r])))]
                    /\ Advance(r, "Respond", "done")
                    /\ UNCHANGED raisedAt
    /\ UNCHANGED <<cvars, corpus, tempWav, disk, req, bpm, files, refText, genText,
                   midi, saved, calls, tempoRead, genFailed, written, existed,
                   serial>>

Step(r) ==
    \/ Arrive(r)
    \/ Validate(r)
    \/ DecodeAudio(r)
    \/ Export(r)
    \/ EstimateTempo(r)
    \/ SelectCorpus(r)
    \/ EncodeReference(r)
    \/ Generate(r)
    \/ DecodeResult(r)
    \/ Persist(r)
    \/ Respond(r)
    \/ OpenSaved(r)

Next == \E r \in Requests : Step(r)

Spec == Init /\ [][Next]_vars

\* the codec alone, on texts drawn from the samples: no request arrives
InitCodec == CodecInit /\ PipelineInit /\ corpus = CorpusOne

SpecCodec == InitCodec /\ [][CodecNext]_vars

(***************************************************************************)
(* Properties of the codec, under SpecCodec                                *)
(***************************************************************************)

\* the classes of the lines the text is made of
Classes == {cinput[i].class : i \in 1..Len(cinput)}

IsWellFormed(sample) == sample.class \in {"wf3", "wf4"}

\* the Note a well-formed sample line stands for: its integers, in the
\* line's milliseconds
SampleNote(sample) ==
    Note(sample.note[4], sample.note[1],
         DivBy1000(sample.note[2]), DivBy1000(sample.note[3]))

\* the Notes of the well-formed lines of the text, in the order of the lines
ExpectedNotes ==
    LET good == SelectSeq(cinput, IsWellFormed)
    IN  [i \in 1..Len(good) |-> SampleNote(good[i])]

\* C1: convert_text_to_midi never aborts: whatever the lines of the text, it
\* returns one InstrumentPart, melodic and of program 0, and raises nothing
C1_DecodeNeverAborts ==
    (cfrom = "lines" /\ cpc # "start") =>
        /\ cmidi.raised = "none"
        /\ Len(cmidi.instruments) = 1
        /\ cmidi.instruments[1].program = 0
        /\ ~cmidi.instruments[1].is_drum

\* C2: a text of well-formed lines of 3 and 4 fields and of lines with fewer
\* than 3 fields decodes to one Note per well-formed line, in the order of
\* the lines, with the line's pitch, start and end and its fourth field, or
\* 100, for velocity; the other lines add nothing
C2_WellFormedLinesDecoded ==
    (cfrom = "lines" /\ cpc # "start" /\ Classes \subseteq {"wf3", "wf4", "short"}) =>
        /\ cmidi.raised = "none"
        /\ Len(cmidi.instruments) = 1
        /\ cmidi.instruments[1].notes = ExpectedNotes

\* C3: the text of Notes of whole non-negative milliseconds, decoded and
\* encoded again, gives the same pitch, start, end and velocity, in order
C3_RoundTrip ==
    (cfrom = "notes" /\ cpc = "encoded") => cback = cinput

(***************************************************************************)
(* Properties of the pipeline, under Spec                                  *)
(***************************************************************************)

StageOrder ==
    <<"Validate", "DecodeAudio", "EstimateTempo", "SelectCorpus",
      "EncodeReference", "Generate", "DecodeResult", "Persist", "Respond">>

IsPrefix(s, t) == Len(s) <= Len(t) /\ SubSeq(t, 1, Len(s)) = s

Ran(r, stage) == \E i \in 1..Len(trace[r]) : trace[r][i] = stage

\* the stage has run and has not raised
Completed(r, stage) == Ran(r, stage) /\ raisedAt[r] # stage

\* the audio the request uploaded
AudioOf(r) == ValueOf(req[r].file)

StatusOf(r) == ValueOf(response[r]).status

\* C4: a tempo estimation that raises gives tempo 0 and a call of the
\* generative service that raises gives the empty text; neither leaves the
\* try block: the next stage follows, and once generation failed the
\* Sequence persisted has no Notes and the file, when it is there and
\* opens, is the response; a 500 then comes from Persist or the open only
C4_PartialFailureTolerance ==
    \A r \in Requests :
        /\ raisedAt[r] \notin {"EstimateTempo", "Generate"}
        /\ (Ran(r, "EstimateTempo") /\ ~AudioOf(tempoRead[r]).estimable) =>
              /\ bpm[r] = SentinelTempo
              /\ pc[r] = "SelectCorpus" \/ Ran(r, "SelectCorpus")
        /\ genFailed[r] =>
              /\ genText[r] = <<>>
              /\ pc[r] = "DecodeResult" \/ Completed(r, "DecodeResult")
              /\ pc[r] = "done" => raisedAt[r] \in {"none", "Persist", "Respond"}
              /\ written[r] # None =>
                    /\ Len(ValueOf(written[r]).instruments) = 1
                    /\ ValueOf(written[r]).instruments[1].notes = <<>>
              /\ (pc[r] = "done" /\ raisedAt[r] = "none" /\ ValueOf(existed[r])) =>
                    /\ ValueOf(response[r]).kind = "file"
                    /\ StatusOf(r) = 200

\* tempo estimation and generation both failed for a request, whose
\* response is the file it persisted, of no Notes
C4_Witness ==
    \E r \in Requests :
        /\ pc[r] = "done"
        /\ tempoRead[r] = r
        /\ ~AudioOf(r).estimable
        /\ genFailed[r]
        /\ trace[r] = StageOrder
        /\ ValueOf(response[r]).kind = "file"
        /\ ValueOf(response[r]).body.instruments[1].notes = <<>>

ListedStages ==
    {"Validate", "DecodeAudio", "Export", "SelectCorpus", "DecodeResult", "Persist"}

\* the stages up to the one that raised: the temporary export belongs to
\* DecodeAudio
StagesUpTo(stage) ==
    LET name == IF stage = "Export" THEN "DecodeAudio" ELSE stage
        last == CHOOSE i \in 1..Len(StageOrder) : StageOrder[i] = name
    IN  SubSeq(StageOrder, 1, last)

\* C5: a POST upload ends with one response: the file if and only if
\* Persist completed and the file is on disk, the 404 if and only if Persist
\* completed and the file is not there, the 500 with the failure's
\* description if and only if one of the listed stages raised, and then no
\* later stage has run
C5_OneResponsePerUpload ==
    \A r \in Requests :
        /\ (pc[r] = "done") <=> (response[r] # None)
        /\ (pc[r] = "done" /\ req[r].method = "POST") =>
              LET resp == ValueOf(response[r])
                  persisted == Completed(r, "Persist")
              IN  /\ Len(SelectSeq(trace[r], LAMBDA st : st = "Respond")) = 1
                  /\ (resp.kind = "file" /\ resp.status = 200)
                        <=> (persisted /\ ValueOf(existed[r]))
                  /\ (resp.status = 404)
                        <=> (persisted /\ ~ValueOf(existed[r]))
                  /\ (resp.kind = "json" /\ resp.status = 500)
                        <=> (raisedAt[r] \in ListedStages)
                  /\ raisedAt[r] # "none" =>
                        /\ raisedAt[r] \in ListedStages
                        /\ resp.kind = "json"
                        /\ resp.error \in {"MultiValueDictKeyError", "CouldntDecodeError",
                                           "OSError", "FileNotFoundError", "TypeError",
                                           "ValueError", "OverflowError"}
                        /\ trace[r] = StagesUpTo(raisedAt[r]) \o <<"Respond">>

\* C6: a request that is no POST is answered 405, a POST without the file
\* field a 4xx client error, and no stage of the pipeline has run
C6_ClientErrorsRejected ==
    \A r \in Requests :
        (pc[r] = "done" /\ (req[r].method # "POST" \/ req[r].file = None)) =>
            /\ StatusOf(r) \in 400..499
            /\ req[r].method # "POST" => StatusOf(r) = 405
            /\ trace[r] = <<"Validate", "Respond">>

\* the keywords the text field of the request supplies: the field's text,
\* when there is one
KeywordList(style) ==
    IF style = None \/ style = Some(<<>>) THEN <<>> ELSE <<ValueOf(style)>>

\* the paths of the entries that end with .mid and start with a whole
\* keyword, in the order of the listing
ExpectedFiles(style) ==
    LET names == Listing(corpus)
        keep == {i \in 1..Len(names) : FileMatches(names[i], KeywordList(style))}
    IN  [k \in 1..Cardinality(keep) |->
            PathJoin(PathJoin(Cwd, Str("mids")), names[Kth(keep, k)])]

\* C7: the reference files are the entries that end with .mid and start
\* with a whole keyword of the request, and a request no file matches goes
\* on with an empty reference text: only the listing itself can fail
C7_WholeKeywordSelection ==
    \A r \in Requests :
        Ran(r, "SelectCorpus") =>
            IF raisedAt[r] = "SelectCorpus"
            THEN ValueOf(response[r]).error = "FileNotFoundError"
            ELSE /\ files[r] = ExpectedFiles(req[r].style)
                 /\ (files[r] = <<>> /\ Ran(r, "EncodeReference")) => refText[r] = <<>>

\* the service answered the prompt it was sent
Echoed(r) == Len(calls[r]) = 1 /\ genText[r] = Strip(calls[r][1])

\* C8: style jazz, a corpus with one matching file of the Note (60, 0, 500,
\* 90) and a service that echoes its prompt: Persist is reached, the
\* Sequence persisted is that one Note and the response is the file
C8_EndToEndEcho ==
    \A r \in Requests :
        (/\ corpus = CorpusOne
         /\ req[r].style = Some(Jazz)
         /\ Echoed(r)
         /\ pc[r] = "done") =>
            /\ Ran(r, "Persist")
            /\ raisedAt[r] \in {"none", "Persist", "Respond"}
            /\ raisedAt[r] = "none" =>
                  /\ ValueOf(written[r]).instruments[1].notes
                        = <<FileNote(60, 0, 500, 90)>>
                  /\ ValueOf(existed[r]) => ValueOf(response[r]).kind = "file"

\* C9: while requests are served one after the other, every tempo is
\* estimated from the request's own upload
C9_SerialTempoFromOwnUpload ==
    serial =>
        \A r \in Requests :
            Ran(r, "EstimateTempo") =>
                /\ tempoRead[r] = r
                /\ bpm[r] = get_bpm_from_wav(AudioOf(r))

\* the race: a request's tempo was estimated from the audio another request
\* exported over its own, it differs from the tempo of its own upload, and
\* the prompt it sent carries it
C9_Witness ==
    \E r \in Requests :
        /\ Ran(r, "EstimateTempo")
        /\ tempoRead[r] \notin {"none", r}
        /\ bpm[r] # get_bpm_from_wav(AudioOf(r))
        /\ bpm[r] = get_bpm_from_wav(AudioOf(tempoRead[r]))
        /\ Len(calls[r]) = 1
        /\ calls[r][1] = Prompt(bpm[r], refText[r])
        /\ pc[r] = "done"
        /\ StatusOf(r) = 200

\* C10: the stages of an upload run in the order of StageOrder, each at most
\* once, a failure leading straight to the response; the service is called
\* at most once, with the tempo EstimateTempo returned and the text
\* EncodeReference returned (seen when Generate is over), and DecodeResult
\* decodes the text Generate returned (seen when DecodeResult is over)
C10_StagesInOrder ==
    \A r \in Requests :
        /\ \/ IsPrefix(trace[r], StageOrder)
           \/ /\ trace[r] # <<>>
              /\ trace[r][Len(trace[r])] = "Respond"
              /\ IsPrefix(SubSeq(trace[r], 1, Len(trace[r]) - 1), StageOrder)
        /\ Len(calls[r]) <= 1
        /\ Len(calls[r]) = 1 <=> Ran(r, "Generate")
        /\ pc[r] = "DecodeResult" =>
              calls[r][1] = Prompt(get_bpm_from_wav(AudioOf(tempoRead[r])),
                                   generate_midi_text_from_files(files[r], corpus))
        /\ pc[r] = "Persist" => midi[r] = convert_text_to_midi(genText[r])
        /\ raisedAt[r] = "DecodeResult" =>
              convert_text_to_midi(genText[r]).raised # "none"

\* an upload ran every stage, in order, its one call of the service raising
C10_Witness ==
    \E r \in Requests :
        /\ trace[r] = StageOrder
        /\ genFailed[r]
        /\ Len(calls[r]) = 1

====
